---- MODULE Spec2Model ----
(***************************************************************************)
(* A model of examples/relay.rs: the command line of the libp2p relay      *)
(* example, the derivation of the local identity, the per-mode dispatch    *)
(* (listen_on / dial_addr) and the poll loop that prints swarm events.     *)
(*                                                                         *)
(* Text is modelled as a sequence of tokens: "/ip4/0.0.0.0/tcp/0" is       *)
(* <<"/", "ip4", "/", "0.0.0.0", "/", "tcp", "/", "0">>.  Concatenation of *)
(* text is \o, and a substring is a contiguous subsequence.  An            *)
(* Option<T> is a sequence of length 0 (None) or 1 (Some).                 *)
(***************************************************************************)
EXTENDS Integers, Sequences, FiniteSets, TLC

VARIABLES
    args,       \* the command line: [mode, seed, address], fixed for the run
    pc,         \* position of main: "args", "setup", "dispatch", "poll", "parked", "exited"
    opt,        \* Option<Opt>: the parsed options, once Opt::from_args returned
    identity,   \* Option<[key, peer]>: local_key and local_peer_id
    trace,      \* what the run did so far, in order: printed lines and swarm calls
    ready,      \* the swarm: events it has ready, oldest first
    closed,     \* the swarm: TRUE once its stream has no more events to produce
    produced,   \* every event the swarm ever made ready, in order of arrival
    injected,   \* number of behaviour events processed inside swarm polls
    last_poll,  \* what the last swarm.poll_next_unpin returned ("never" before the first)
    exit,       \* how the process ended: "none" while it runs
    keyruns     \* two independent runs of the identity derivation (KeySpec)

vars == <<args, pc, opt, identity, trace, ready, closed, produced, injected,
          last_poll, exit, keyruns>>

----------------------------------------------------------------------------
(* Bounds of the model *)

\* events the swarm produces in one run
MaxEvents == 2
\* behaviour events (floodsub / relay) processed in one run
MaxInjected == 1

----------------------------------------------------------------------------
(* Text helpers *)

None == <<>>
Some(x) == <<x>>
IsSome(o) == Len(o) = 1

\* part occurs in text as a contiguous run of tokens
Contains(text, part) ==
    \E i \in 0..(Len(text) - Len(part)) :
        \A j \in 1..Len(part) : text[i + j] = part[j]

\* text ends with part
EndsWith(text, part) ==
    /\ Len(part) <= Len(text)
    /\ \A j \in 1..Len(part) : text[Len(text) - Len(part) + j] = part[j]

\* the token for the character U+0060 of a format string
BACKTICK == "<backtick>"

\* format!: the literal pieces of a format string with the arguments between them
RECURSIVE Format(_, _)
Format(pieces, fargs) ==
    IF fargs = <<>> THEN Head(pieces)
    ELSE Head(pieces) \o Head(fargs) \o Format(Tail(pieces), Tail(fargs))

----------------------------------------------------------------------------
(* Results of the fallible conversions *)

Ok(v) == [ok |-> TRUE, val |-> v]
Err(e) == [ok |-> FALSE, val |-> e]

----------------------------------------------------------------------------
(* enum Mode and impl FromStr for Mode *)

Mode == {"Relay", "ClientListen", "ClientDial"}

Mode_from_str_caseless(mode) ==
    CASE mode \in {"relay", "Relay", "RELAY"} -> Ok("Relay")
      [] mode \in {"client-listen", "Client-Listen"} -> Ok("ClientListen")
      [] mode \in {"client-dial", "Client-Dial"} -> Ok("ClientDial")
      [] OTHER -> Err("ModeError")

Mode_from_str(mode) ==
    CASE mode = "relay" -> Ok("Relay")
      [] mode = "client-listen" -> Ok("ClientListen")
      [] mode = "client-dial" -> Ok("ClientDial")
      [] OTHER -> Err("ModeError")

----------------------------------------------------------------------------
(* secret_key_seed: u8, parsed from the characters of its argument *)

U8_MAX == 255

Digits == {"0", "1", "2", "3", "4", "5", "6", "7", "8", "9"}

DigitValue(c) ==
    CASE c = "0" -> 0 [] c = "1" -> 1 [] c = "2" -> 2 [] c = "3" -> 3
      [] c = "4" -> 4 [] c = "5" -> 5 [] c = "6" -> 6 [] c = "7" -> 7
      [] c = "8" -> 8 [] c = "9" -> 9

\* the digits of chars accumulated onto acc, failing on a non-digit or above U8_MAX
RECURSIVE u8_digits(_, _)
u8_digits(chars, acc) ==
    IF chars = <<>> THEN Ok(acc)
    ELSE IF Head(chars) \notin Digits THEN Err("InvalidDigit")
    ELSE LET next == acc * 10 + DigitValue(Head(chars))
         IN  IF next > U8_MAX THEN Err("PosOverflow")
             ELSE u8_digits(Tail(chars), next)

u8_from_str(chars) ==
    IF chars = <<>> THEN Err("Empty")
    ELSE LET digits == IF Head(chars) = "+" THEN Tail(chars) ELSE chars
         IN  IF digits = <<>> THEN Err("InvalidDigit") ELSE u8_digits(digits, 0)

----------------------------------------------------------------------------
(* Multiaddr: a sequence of protocol components, and its text form *)

Component(proto, arg) == [proto |-> proto, arg |-> arg]

\* protocols whose text form carries one argument, and the arguments that are valid
ValidArgs(proto) ==
    CASE proto = "ip4" -> {"0.0.0.0", "127.0.0.1"}
      [] proto = "tcp" -> {"0", "4001"}
      [] proto = "p2p" -> {"QmRelay", "QmListener"}
      [] OTHER -> {}

ProtocolsWithArg == {"ip4", "tcp", "p2p"}
ProtocolsWithoutArg == {"p2p-circuit"}

\* "/proto/arg/proto/..." to components; an empty text is the empty Multiaddr
RECURSIVE Multiaddr_from_str(_)
Multiaddr_from_str(text) ==
    IF text = <<>> THEN Ok(<<>>)
    ELSE IF Head(text) # "/" \/ Len(text) < 2 THEN Err("InvalidMultiaddr")
    ELSE LET name == text[2] IN
         IF name \in ProtocolsWithoutArg
         THEN LET rest == Multiaddr_from_str(SubSeq(text, 3, Len(text)))
              IN  IF rest.ok THEN Ok(<<Component(name, "")>> \o rest.val) ELSE rest
         ELSE IF name \in ProtocolsWithArg
         THEN IF Len(text) < 4 \/ text[3] # "/" THEN Err("InvalidProtocolString")
              ELSE IF text[4] \notin ValidArgs(name) THEN Err("ParsingError")
              ELSE LET rest == Multiaddr_from_str(SubSeq(text, 5, Len(text)))
                   IN  IF rest.ok THEN Ok(<<Component(name, text[4])>> \o rest.val)
                       ELSE rest
         ELSE Err("UnknownProtocolString")

\* Display for Multiaddr
RECURSIVE Multiaddr_to_string(_)
Multiaddr_to_string(addr) ==
    IF addr = <<>> THEN <<>>
    ELSE LET c == Head(addr)
         IN  (IF c.proto \in ProtocolsWithArg THEN <<"/", c.proto, "/", c.arg>>
              ELSE <<"/", c.proto>>) \o Multiaddr_to_string(Tail(addr))

\* Debug for Multiaddr: the text form, quoted
Multiaddr_debug(addr) == <<"\"">> \o Multiaddr_to_string(addr) \o <<"\"">>

----------------------------------------------------------------------------
(* Local identity *)

KEY_LEN == 32

generate_ed25519_masked(secret_key_seed) ==
    [i \in 1..KEY_LEN |-> IF i = 1 THEN secret_key_seed % 128 ELSE 0]

\* the keypair, as the secret bytes it is made from
generate_ed25519(secret_key_seed) ==
    [i \in 1..KEY_LEN |-> IF i = 1 THEN secret_key_seed ELSE 0]

\* PeerId::from(local_key.public()): determined by the key
PeerId_from(key) == [public_of |-> key]

\* Display / Debug for PeerId
PeerId_to_string(peer) == <<"PeerId" \o ToString(peer.public_of)>>

----------------------------------------------------------------------------
(* The command lines the model runs *)

DEFAULT_RELAY_ADDRESS == <<"/", "ip4", "/", "0.0.0.0", "/", "tcp", "/", "0">>

ModeArgs == {"relay", "client-listen", "client-dial", "Relay", "client_dial", ""}

SeedArgs == {<<"2", "5", "5">>, <<"2", "5", "6">>, <<"x">>, <<>>}

RelayCircuitText ==
    <<"/", "ip4", "/", "127.0.0.1", "/", "tcp", "/", "4001",
      "/", "p2p", "/", "QmRelay", "/", "p2p-circuit">>

AddressArgs ==
    { None,
      Some(DEFAULT_RELAY_ADDRESS),
      Some(RelayCircuitText),
      Some(RelayCircuitText \o <<"/", "p2p", "/", "QmListener">>),
      Some(<<"localhost:4001">>),
      Some(<<"/", "ip4", "/", "127.0.0.1", "/", "tcp">>) }

Args == [mode : ModeArgs, seed : SeedArgs, address : AddressArgs]

----------------------------------------------------------------------------
(* The swarm's events *)

NewListenAddr(address) == [type |-> "NewListenAddr", address |-> address]
OtherEvent(type) == [type |-> type, address |-> <<>>]

ListenAddrs ==
    { <<Component("ip4", "127.0.0.1"), Component("tcp", "4001")>>,
      <<Component("ip4", "127.0.0.1"), Component("tcp", "4001"),
        Component("p2p", "QmRelay"), Component("p2p-circuit", "")>> }

SwarmEvents ==
    {NewListenAddr(a) : a \in ListenAddrs} \cup {OtherEvent("ConnectionEstablished")}

\* Debug for SwarmEvent
SwarmEvent_debug(event) ==
    <<event.type>> \o
    (IF event.type = "NewListenAddr" THEN Multiaddr_debug(event.address) ELSE <<>>)

----------------------------------------------------------------------------
(* Entries of the trace *)

\* a line written to standard output by main, by the event loop or by the behaviour
Println(by, line) == [kind |-> "println", by |-> by, line |-> line, addr |-> <<>>, ok |-> TRUE]

\* a panic: its message goes to standard error
Panic(line) == [kind |-> "panic", by |-> "main", line |-> line, addr |-> <<>>, ok |-> FALSE]

\* a call into the library, with the address passed and whether it returned Ok
Call(op, addr, ok) == [kind |-> op, by |-> "main", line |-> <<>>, addr |-> addr, ok |-> ok]

NetworkStarts == {"listen_on", "dial_addr"}

----------------------------------------------------------------------------
(* Address resolution: what each helper returns, prints and whether it panics *)

Resolved(ret, out, panicked) == [ret |-> ret, out |-> out, panicked |-> panicked]

DefaultNotice ==
    Println("main",
        <<"--address argument was not provided, will use the default listening relay address: ">>
        \o DEFAULT_RELAY_ADDRESS)

get_relay_address_always_default(o) ==
    Resolved(DEFAULT_RELAY_ADDRESS, <<DefaultNotice>>, FALSE)

get_relay_address(o) ==
    IF IsSome(o.address) THEN Resolved(o.address[1], <<>>, FALSE)
    ELSE Resolved(DEFAULT_RELAY_ADDRESS, <<DefaultNotice>>, FALSE)

get_relay_peer_address_defaulting(o) ==
    IF IsSome(o.address) THEN Resolved(o.address[1], <<>>, FALSE)
    ELSE Resolved(DEFAULT_RELAY_ADDRESS, <<>>, FALSE)

get_relay_peer_address(o) ==
    IF IsSome(o.address) THEN Resolved(o.address[1], <<>>, FALSE)
    ELSE Resolved(<<>>,
            <<Panic(<<"Please provide relayed listen address such as: ",
                      "<addr-relay-server>", "/", "p2p", "/", "<peer-id-relay-server>",
                      "/", "p2p-circuit">>)>>,
            TRUE)

get_client_listen_address(o) ==
    IF IsSome(o.address) THEN Resolved(o.address[1], <<>>, FALSE)
    ELSE Resolved(<<>>,
            <<Panic(<<"Please provide client listen address such as: ",
                      "<addr-relay-server>", "/", "p2p", "/", "<peer-id-relay-server>",
                      "/", "p2p-circuit", "/", "p2p", "/",
                      "<peer-id-listening-relay-client>">>)>>,
            TRUE)

----------------------------------------------------------------------------
(* print_listener_peer: the line printed for a NewListenAddr event *)

print_listener_peer_no_circuit(addr, mode, local_peer_id) ==
    CASE mode = "Relay" ->
           Println("loop",
               Format(<< <<"Peer that act as Relay can access on: ", BACKTICK>>,
                         <<"/", "p2p", "/">>,
                         <<BACKTICK>> >>,
                      <<Multiaddr_to_string(addr), PeerId_to_string(local_peer_id)>>))
      [] mode = "ClientListen" ->
           Println("loop",
               Format(<< <<"Peer that act as Client Listen can access on: ", BACKTICK, "/", "p2p", "/">>,
                         <<"/">>,
                         <<BACKTICK>> >>,
                      <<Multiaddr_to_string(addr), PeerId_to_string(local_peer_id)>>))
      [] mode = "ClientDial" ->
           Println("loop",
               Format(<< <<"Peer that act as Client Dial Listening on ">>, <<>> >>,
                      <<Multiaddr_debug(addr)>>))

print_listener_peer(addr, mode, local_peer_id) ==
    CASE mode = "Relay" ->
           Println("loop",
               Format(<< <<"Peer that act as Relay can access on: ", BACKTICK>>,
                         <<"/", "p2p", "/">>,
                         <<"/", "p2p-circuit", BACKTICK>> >>,
                      <<Multiaddr_to_string(addr), PeerId_to_string(local_peer_id)>>))
      [] mode = "ClientListen" ->
           Println("loop",
               Format(<< <<"Peer that act as Client Listen can access on: ", BACKTICK, "/", "p2p", "/">>,
                         <<"/">>,
                         <<BACKTICK>> >>,
                      <<Multiaddr_to_string(addr), PeerId_to_string(local_peer_id)>>))
      [] mode = "ClientDial" ->
           Println("loop",
               Format(<< <<"Peer that act as Client Dial Listening on ">>, <<>> >>,
                      <<Multiaddr_debug(addr)>>))

----------------------------------------------------------------------------
(* The run of main *)

Init ==
    /\ args \in Args
    /\ pc = "args"
    /\ opt = None
    /\ identity = None
    /\ trace = <<>>
    /\ ready = <<>>
    /\ closed = FALSE
    /\ produced = <<>>
    /\ injected = 0
    /\ last_poll = "never"
    /\ exit = "none"
    /\ keyruns = <<None, None>>

\* the status the process ends with: 0 when main returns Ok, 1 when it returns Err
\* or the flags do not parse, 101 when it panics
ExitStatus(how) ==
    CASE how = "main_ok" -> 0
      [] how = "main_err" -> 1
      [] how = "usage_error" -> 1
      [] how = "panic" -> 101

\* Debug for Opt
Opt_debug(o) ==
    <<"Opt", o.mode, ToString(o.secret_key_seed)>> \o
    (IF IsSome(o.address) THEN <<"Some(">> \o o.address[1] \o <<")">> ELSE <<"None">>)

\* Opt::from_args and the first println: a flag that does not parse ends the process
FromArgs ==
    /\ pc = "args"
    /\ LET mode == Mode_from_str(args.mode)
           seed == u8_from_str(args.seed)
       IN  IF mode.ok /\ seed.ok
           THEN LET o == [mode |-> mode.val, secret_key_seed |-> seed.val,
                          address |-> args.address]
                IN  /\ opt' = Some(o)
                    /\ trace' = Append(trace, Println("main", <<"opt: ">> \o Opt_debug(o)))
                    /\ pc' = "setup"
                    /\ exit' = exit
           ELSE /\ pc' = "exited"
                /\ exit' = "usage_error"
                /\ UNCHANGED <<opt, trace>>
    /\ UNCHANGED <<args, identity, ready, closed, produced, injected, last_poll, keyruns>>

\* the identity, the transport (which may fail to build) and the swarm
Setup ==
    /\ pc = "setup"
    /\ \E transport_ok \in BOOLEAN :
         LET local_key == generate_ed25519(opt[1].secret_key_seed)
             local_peer_id == PeerId_from(local_key)
         IN  /\ identity' = Some([key |-> local_key, peer |-> local_peer_id])
             /\ trace' = trace \o
                    << Println("main", <<"Local peer id: ">> \o PeerId_to_string(local_peer_id)),
                       Call("DnsConfig::system", <<>>, transport_ok) >>
             /\ IF transport_ok
                THEN pc' = "dispatch" /\ exit' = exit
                ELSE pc' = "exited" /\ exit' = "main_err"
    /\ UNCHANGED <<args, opt, ready, closed, produced, injected, last_poll, keyruns>>

Arm(steps, how) == [steps |-> steps, exit |-> how]

start_network_unwrap_or_default(op, r, io_ok, banner) ==
    IF r.panicked THEN Arm(r.out, "panic")
    ELSE LET parsed == Multiaddr_from_str(r.ret)
             addr == IF parsed.ok THEN parsed.val
                     ELSE Multiaddr_from_str(DEFAULT_RELAY_ADDRESS).val
         IN  IF ~io_ok THEN Arm(r.out \o <<Call(op, addr, FALSE)>>, "main_err")
             ELSE Arm(r.out \o <<Call(op, addr, TRUE), Println("main", banner \o r.ret)>>,
                      "none")

start_network_retrying(op, r, io_ok, banner) ==
    IF r.panicked THEN Arm(r.out, "panic")
    ELSE LET parsed == Multiaddr_from_str(r.ret)
         IN  IF ~parsed.ok THEN Arm(r.out, "main_err")
             ELSE IF ~io_ok
             THEN Arm(r.out \o <<Call(op, parsed.val, FALSE), Call(op, parsed.val, FALSE)>>,
                      "main_err")
             ELSE Arm(r.out \o <<Call(op, parsed.val, TRUE), Println("main", banner \o r.ret)>>,
                      "none")

\* one arm of `match opt.mode`, after its address was resolved to r:
\* swarm.op(address.parse()?)?; println!(banner, address)
start_network(op, r, io_ok, banner) ==
    IF r.panicked THEN Arm(r.out, "panic")
    ELSE LET parsed == Multiaddr_from_str(r.ret)
         IN  IF ~parsed.ok THEN Arm(r.out, "main_err")
             ELSE IF ~io_ok THEN Arm(r.out \o <<Call(op, parsed.val, FALSE)>>, "main_err")
             ELSE Arm(r.out \o <<Call(op, parsed.val, TRUE), Println("main", banner \o r.ret)>>,
                      "none")

\* the arm's effect on the run: into the event loop, or out of the process
Enter(arm) ==
    /\ trace' = trace \o arm.steps
    /\ IF arm.exit = "none"
       THEN pc' = "poll" /\ exit' = exit
       ELSE pc' = "exited" /\ exit' = arm.exit
    /\ UNCHANGED <<args, opt, identity, ready, closed, produced, injected, last_poll, keyruns>>

DispatchRelay ==
    /\ pc = "dispatch"
    /\ opt[1].mode = "Relay"
    /\ \E io_ok \in BOOLEAN :
         Enter(start_network("listen_on", get_relay_address(opt[1]), io_ok,
                             <<"starting listening as relay on ">>))

DispatchClientListen ==
    /\ pc = "dispatch"
    /\ opt[1].mode = "ClientListen"
    /\ \E io_ok \in BOOLEAN :
         Enter(start_network("listen_on", get_relay_peer_address(opt[1]), io_ok,
                             <<"starting client listener via relay on ">>))

DispatchClientDial ==
    /\ pc = "dispatch"
    /\ opt[1].mode = "ClientDial"
    /\ \E io_ok \in BOOLEAN :
         Enter(start_network("dial_addr", get_client_listen_address(opt[1]), io_ok,
                             <<"starting as client dialer on ">>))

----------------------------------------------------------------------------
(* The event loop: block_on(poll_fn(..)) *)

\* what the loop prints for an event
event_line(event) ==
    IF event.type = "NewListenAddr"
    THEN print_listener_peer(event.address, opt[1].mode, identity[1].peer)
    ELSE Println("loop", SwarmEvent_debug(event))

EventLoopPoll_break_after_event ==
    /\ pc = "poll"
    /\ IF ready # <<>>
       THEN /\ last_poll' = "Ready(Some)"
            /\ ready' = Tail(ready)
            /\ trace' = Append(trace, event_line(Head(ready)))
            /\ pc' = "parked"
            /\ exit' = exit
       ELSE IF closed
       THEN /\ last_poll' = "Ready(None)"
            /\ pc' = "exited"
            /\ exit' = "main_ok"
            /\ UNCHANGED <<ready, trace>>
       ELSE /\ last_poll' = "Pending"
            /\ pc' = "parked"
            /\ UNCHANGED <<ready, trace, exit>>
    /\ UNCHANGED <<args, opt, identity, closed, produced, injected, keyruns>>

EventLoopPoll_return_on_pending ==
    /\ pc = "poll"
    /\ IF ready # <<>>
       THEN /\ last_poll' = "Ready(Some)"
            /\ ready' = Tail(ready)
            /\ trace' = Append(trace, event_line(Head(ready)))
            /\ pc' = "poll"
            /\ exit' = exit
       ELSE IF closed
       THEN /\ last_poll' = "Ready(None)"
            /\ pc' = "exited"
            /\ exit' = "main_ok"
            /\ UNCHANGED <<ready, trace>>
       ELSE /\ last_poll' = "Pending"
            /\ pc' = "exited"
            /\ exit' = "main_ok"
            /\ UNCHANGED <<ready, trace>>
    /\ UNCHANGED <<args, opt, identity, closed, produced, injected, keyruns>>

\* one turn of `loop { match swarm.poll_next_unpin(cx) { .. } }`
EventLoopPoll ==
    /\ pc = "poll"
    /\ IF ready # <<>>
       THEN /\ last_poll' = "Ready(Some)"
            /\ ready' = Tail(ready)
            /\ trace' = Append(trace, event_line(Head(ready)))
            /\ pc' = "poll"
            /\ exit' = exit
       ELSE IF closed
       THEN /\ last_poll' = "Ready(None)"
            /\ pc' = "exited"
            /\ exit' = "main_ok"
            /\ UNCHANGED <<ready, trace>>
       ELSE /\ last_poll' = "Pending"
            /\ pc' = "parked"
            /\ UNCHANGED <<ready, trace, exit>>
    /\ UNCHANGED <<args, opt, identity, closed, produced, injected, keyruns>>

\* block_on calls the poll function again once the task was woken
Resume ==
    /\ pc = "parked"
    /\ pc' = "poll"
    /\ UNCHANGED <<args, opt, identity, trace, ready, closed, produced, injected,
                   last_poll, exit, keyruns>>

\* the swarm has one more event ready
SwarmProduces ==
    /\ pc \in {"poll", "parked"}
    /\ ~closed
    /\ Len(produced) < MaxEvents
    /\ \E event \in SwarmEvents :
         /\ ready' = Append(ready, event)
         /\ produced' = Append(produced, event)
    /\ UNCHANGED <<args, pc, opt, identity, trace, closed, injected, last_poll, exit, keyruns>>

\* the swarm's stream ends: nothing more will be produced
SwarmCloses ==
    /\ pc \in {"poll", "parked"}
    /\ ~closed
    /\ closed' = TRUE
    /\ UNCHANGED <<args, pc, opt, identity, trace, ready, produced, injected, last_poll,
                   exit, keyruns>>

BehaviourEvents == {"FloodsubEvent::Message", "FloodsubEvent::Subscribed", "RelayEvent"}

\* NetworkBehaviourEventProcess::inject_event: what the behaviour prints for an event
inject_event(message) ==
    CASE message = "FloodsubEvent::Message" ->
           <<Println("behaviour", <<"Received: ", "data", " from ", "source">>)>>
      [] message = "RelayEvent" ->
           <<Println("behaviour",
                <<"----------This is a test when relay produces an event--------">>)>>
      [] OTHER -> <<>>

\* inside a poll of the swarm, the behaviour processes one of its events
InjectEvent ==
    /\ pc = "poll"
    /\ injected < MaxInjected
    /\ \E message \in BehaviourEvents :
         /\ trace' = trace \o inject_event(message)
         /\ injected' = injected + 1
    /\ UNCHANGED <<args, pc, opt, identity, ready, closed, produced, last_poll, exit, keyruns>>

Next ==
    \/ FromArgs
    \/ Setup
    \/ DispatchRelay
    \/ DispatchClientListen
    \/ DispatchClientDial
    \/ EventLoopPoll
    \/ Resume
    \/ SwarmProduces
    \/ SwarmCloses
    \/ InjectEvent

Spec == Init /\ [][Next]_vars

\* block_on runs the poll function whenever it is runnable, and again after the
\* swarm woke the task because it has an event ready or has ended
FairSpec ==
    /\ Spec
    /\ WF_vars(EventLoopPoll)
    /\ WF_vars(Resume /\ (ready # <<>> \/ closed))

----------------------------------------------------------------------------
(* Two independent derivations of the identity, each from a seed byte *)

KeyInit ==
    /\ args = [mode |-> "relay", seed |-> <<"2", "5", "5">>, address |-> None]
    /\ pc = "args"
    /\ opt = None
    /\ identity = None
    /\ trace = <<>>
    /\ ready = <<>>
    /\ closed = FALSE
    /\ produced = <<>>
    /\ injected = 0
    /\ last_poll = "never"
    /\ exit = "none"
    /\ keyruns = <<None, None>>

\* lines 38-39 of main, in run i, for any seed byte
KeyRun(i) ==
    /\ keyruns[i] = None
    /\ \E seed \in 0..U8_MAX :
         LET local_key == generate_ed25519(seed)
         IN  keyruns' = [keyruns EXCEPT
                 ![i] = Some([seed |-> seed, key |-> local_key, peer |-> PeerId_from(local_key)])]
    /\ UNCHANGED <<args, pc, opt, identity, trace, ready, closed, produced, injected,
                   last_poll, exit>>

KeyNext == \E i \in 1..2 : KeyRun(i)

KeySpec == KeyInit /\ [][KeyNext]_vars

----------------------------------------------------------------------------
(* Vocabulary of the properties *)

\* the listen_on / dial_addr calls made so far, in order
IsNetworkStart(e) == e.kind \in NetworkStarts
NetCalls == SelectSeq(trace, IsNetworkStart)

\* the lines the event loop printed so far, in order
IsLoopLine(e) == e.by = "loop"
LoopLines == SelectSeq(trace, IsLoopLine)

\* the transport was built, so main went on to the match on the mode
TransportBuilt == \E i \in 1..Len(trace) : trace[i].kind = "DnsConfig::system" /\ trace[i].ok

\* the match on the mode has run
Dispatched == TransportBuilt /\ pc # "dispatch"

InLoop == pc \in {"poll", "parked"}

ValidModeArgs == {"relay", "client-listen", "client-dial"}

\* the address a well-configured run resolves to: None when a mandatory one is missing
ResolvedText ==
    IF IsSome(args.address) THEN args.address
    ELSE IF args.mode = "relay" THEN Some(DEFAULT_RELAY_ADDRESS)
    ELSE None

LocalPeerText == PeerId_to_string(identity[1].peer)

----------------------------------------------------------------------------
\* C1: in ClientListen and ClientDial mode with no --address the process ends
\* with a fatal configuration error (the panic of the address helper), and no
\* listen_on or dial_addr call is made in that run.
C1_MissingAddress == args.mode \in {"client-listen", "client-dial"} /\ args.address = None

C1_MissingAddressIsFatal ==
    C1_MissingAddress =>
        /\ NetCalls = <<>>
        /\ ~InLoop
        /\ last_poll = "never"
        /\ exit # "main_ok"
        /\ Dispatched => /\ pc = "exited"
                         /\ exit = "panic"
                         /\ trace[Len(trace)].kind = "panic"

C1_Witness ==
    /\ C1_MissingAddress
    /\ args.mode = "client-listen"
    /\ Dispatched
    /\ exit = "panic"

\* C2: Mode::from_str gives Relay for exactly "relay", ClientListen for exactly
\* "client-listen", ClientDial for exactly "client-dial", and an error for every
\* other string, so that the flags parse to that mode or the process stops.
C2_ModeParsing ==
    (pc # "args" /\ u8_from_str(args.seed).ok) =>
        /\ args.mode = "relay" => IsSome(opt) /\ opt[1].mode = "Relay"
        /\ args.mode = "client-listen" => IsSome(opt) /\ opt[1].mode = "ClientListen"
        /\ args.mode = "client-dial" => IsSome(opt) /\ opt[1].mode = "ClientDial"
        /\ args.mode \notin ValidModeArgs =>
               opt = None /\ pc = "exited" /\ exit = "usage_error"

C2_Witness ==
    /\ args.mode = "Relay"
    /\ u8_from_str(args.seed).ok
    /\ pc = "exited"
    /\ exit = "usage_error"

\* C3: in every mode, a resolved address that is malformed ends the process with
\* an error and no listen_on / dial_addr call; a well-formed one leads to exactly
\* one listen_on / dial_addr call, with exactly that address.
C3_AddressParsing ==
    (Dispatched /\ IsSome(ResolvedText)) =>
        IF Multiaddr_from_str(ResolvedText[1]).ok
        THEN /\ Len(NetCalls) = 1
             /\ Multiaddr_to_string(NetCalls[1].addr) = ResolvedText[1]
        ELSE /\ NetCalls = <<>>
             /\ pc = "exited"
             /\ exit = "main_err"

C3_Witness ==
    /\ Dispatched
    /\ args.mode = "client-dial"
    /\ args.address = Some(<<"/", "ip4", "/", "127.0.0.1", "/", "tcp">>)
    /\ exit = "main_err"

\* C4: main returns Ok only after the swarm's stream reported its end
\* (Ready(None)); a run with a mode or seed that does not parse, a missing
\* mandatory address, a malformed address or a failed listen / dial never
\* enters the event loop and ends with a non-zero status.
C4_Failure ==
    \/ args.mode \notin ValidModeArgs
    \/ ~u8_from_str(args.seed).ok
    \/ ResolvedText = None
    \/ (IsSome(ResolvedText) /\ ~Multiaddr_from_str(ResolvedText[1]).ok)
    \/ \E i \in 1..Len(trace) : IsNetworkStart(trace[i]) /\ ~trace[i].ok

C4_ExitStatus ==
    /\ exit = "main_ok" => /\ pc = "exited"
                           /\ last_poll = "Ready(None)"
                           /\ closed
    /\ C4_Failure => /\ ~InLoop
                     /\ last_poll = "never"
                     /\ exit # "main_ok"
                     /\ pc = "exited" => ExitStatus(exit) # 0
                     /\ (pc # "args" /\ opt = None) => pc = "exited"
                     /\ Dispatched => pc = "exited"

C4_Witness ==
    /\ exit = "main_ok"
    /\ ExitStatus(exit) = 0
    /\ Len(produced) > 0

\* C5: get_relay_address gives the default "/ip4/0.0.0.0/tcp/0" and prints the
\* default-address notice exactly when no --address was given; with an address
\* given it gives exactly that address and prints no notice.
C5_Notices == {i \in 1..Len(trace) : trace[i] = DefaultNotice}

C5_RelayAddress ==
    (args.mode = "relay" /\ Dispatched) =>
        /\ args.address = None <=> C5_Notices # {}
        /\ Cardinality(C5_Notices) <= 1
        /\ \A i \in 1..Len(trace) :
             IsNetworkStart(trace[i]) =>
                 Multiaddr_to_string(trace[i].addr) =
                     (IF args.address = None THEN DEFAULT_RELAY_ADDRESS ELSE args.address[1])
        /\ \A i \in 1..Len(trace) :
             (trace[i].kind = "println" /\ trace[i].by = "main"
                 /\ trace[i].line[1] = "starting listening as relay on ") =>
                 Tail(trace[i].line) =
                     (IF args.address = None THEN DEFAULT_RELAY_ADDRESS ELSE args.address[1])

C5_Witness ==
    /\ args.mode = "relay"
    /\ args.address = Some(RelayCircuitText)
    /\ Dispatched
    /\ C5_Notices = {}
    /\ Len(NetCalls) = 1
    /\ Multiaddr_to_string(NetCalls[1].addr) = RelayCircuitText

\* C6: in a Relay run with no --address, the default-address notice is printed
\* before listen_on is called, listen_on is called before any event is polled,
\* and the line printed for every NewListenAddr event ends, after the address
\* and /p2p/<local peer id>, with /p2p-circuit.
C6_CircuitSuffix(k) ==
    Multiaddr_to_string(produced[k].address) \o <<"/", "p2p", "/">> \o LocalPeerText
        \o <<"/", "p2p-circuit">>

C6_RelayScenario ==
    (args.mode = "relay" /\ args.address = None) =>
        /\ \A i \in 1..Len(trace) :
             trace[i].kind = "listen_on" => \E j \in 1..(i - 1) : trace[j] = DefaultNotice
        /\ \A i \in 1..Len(trace) :
             trace[i].by = "loop" => \E j \in 1..(i - 1) : trace[j].kind = "listen_on"
        /\ last_poll # "never" => Len(NetCalls) = 1 /\ NetCalls[1].kind = "listen_on"
        /\ \A k \in 1..Len(LoopLines) :
             produced[k].type = "NewListenAddr" =>
                 /\ Contains(LoopLines[k].line, <<"/", "p2p-circuit">>)
                 /\ EndsWith(LoopLines[k].line, C6_CircuitSuffix(k) \o <<BACKTICK>>)

C6_Witness ==
    /\ args.mode = "relay"
    /\ args.address = None
    /\ Len(LoopLines) >= 1
    /\ produced[1].type = "NewListenAddr"

\* C7: for a NewListenAddr event, ClientListen mode prints a path of the form
\* /p2p/<local peer id>/<address>, the peer id before the address; ClientDial
\* mode prints the address alone, without the local peer id.
C7_ListenerLine ==
    \A k \in 1..Len(LoopLines) :
        produced[k].type = "NewListenAddr" =>
            /\ args.mode = "client-listen" =>
                   Contains(LoopLines[k].line,
                       <<"/", "p2p", "/">> \o LocalPeerText \o <<"/">>
                           \o Multiaddr_to_string(produced[k].address))
            /\ args.mode = "client-dial" =>
                   /\ Contains(LoopLines[k].line, Multiaddr_to_string(produced[k].address))
                   /\ ~Contains(LoopLines[k].line, LocalPeerText)

\* C8: the poll function of the event loop consumes every event the swarm has
\* ready and prints each exactly once, in arrival order, before it yields; it
\* yields only after the swarm reported Pending; it completes with Ok as soon as
\* the swarm reports the end of its stream, so once the stream has ended the
\* loop terminates, and it never terminates otherwise.
C8_Drained ==
    /\ Len(LoopLines) + Len(ready) = Len(produced)
    /\ \A k \in 1..Len(LoopLines) : LoopLines[k] = event_line(produced[k])
    /\ pc = "parked" => last_poll = "Pending"
    /\ exit = "main_ok" => /\ closed
                           /\ last_poll = "Ready(None)"
                           /\ LoopLines = [k \in 1..Len(produced) |-> event_line(produced[k])]

C8_Turn ==
    /\ (pc = "poll" /\ pc' = "parked") =>
           /\ ready = <<>>
           /\ ~closed
           /\ last_poll' = "Pending"
           /\ Len(LoopLines) = Len(produced)
    /\ (last_poll # "Ready(None)" /\ last_poll' = "Ready(None)") =>
           /\ pc' = "exited"
           /\ exit' = "main_ok"
    /\ (pc = "poll" /\ ready = <<>> /\ closed /\ pc' # pc) => exit' = "main_ok"

C8_DrainThenYield ==
    /\ []C8_Drained
    /\ [][C8_Turn]_vars
    /\ (InLoop /\ closed) ~> (pc = "exited" /\ exit = "main_ok")

C8_Witness ==
    /\ pc = "parked"
    /\ last_poll = "Pending"
    /\ Len(LoopLines) = MaxEvents
    /\ produced[1] # produced[2]

\* C9: the mode is fixed at startup: at most one network start is ever issued,
\* listen_on in Relay and ClientListen mode and dial_addr in ClientDial mode, it
\* is not repeated after a failure, and every NewListenAddr line is formatted
\* for the mode that was dispatched on.
C9_ModeOf(mode_arg) ==
    CASE mode_arg = "relay" -> "Relay"
      [] mode_arg = "client-listen" -> "ClientListen"
      [] mode_arg = "client-dial" -> "ClientDial"

C9_StartOf(mode_arg) == IF mode_arg = "client-dial" THEN "dial_addr" ELSE "listen_on"

C9_SingleStart ==
    /\ Len(NetCalls) <= 1
    /\ IsSome(opt) => opt[1].mode = C9_ModeOf(args.mode)
    /\ Len(NetCalls) = 1 =>
           /\ NetCalls[1].kind = C9_StartOf(args.mode)
           /\ ~NetCalls[1].ok => pc = "exited" /\ trace[Len(trace)] = NetCalls[1]
    /\ InLoop => Len(NetCalls) = 1 /\ NetCalls[1].ok
    /\ \A k \in 1..Len(LoopLines) :
           produced[k].type = "NewListenAddr" =>
               LoopLines[k] = print_listener_peer(produced[k].address,
                                                  C9_ModeOf(args.mode), identity[1].peer)

C9_Witness ==
    /\ args.mode = "client-dial"
    /\ Len(NetCalls) = 1
    /\ NetCalls[1].kind = "dial_addr"
    /\ Len(LoopLines) >= 1
    /\ produced[1].type = "NewListenAddr"

\* C10: the identity depends on the seed byte alone: the secret is a 32-byte
\* buffer whose first byte is the seed and whose other 31 bytes are zero, so two
\* runs with the same seed have the same buffer and peer id, and two runs with
\* different seed bytes have different buffers.
C10_Buffer(run) ==
    /\ Len(run.key) = 32
    /\ run.key[1] = run.seed
    /\ \A i \in 2..32 : run.key[i] = 0

C10_SeedDeterminesIdentity ==
    /\ \A i \in 1..2 : IsSome(keyruns[i]) => C10_Buffer(keyruns[i][1])
    /\ (IsSome(keyruns[1]) /\ IsSome(keyruns[2])) =>
           LET a == keyruns[1][1]
               b == keyruns[2][1]
           IN  /\ a.seed = b.seed => a.key = b.key /\ a.peer = b.peer
               /\ a.seed # b.seed => a.key # b.key

C10_Witness ==
    /\ IsSome(keyruns[1])
    /\ IsSome(keyruns[2])
    /\ keyruns[1][1].seed = 255
    /\ keyruns[2][1].seed = 127

====
